---- MODULE Spec2Model ----
(***************************************************************************)
(* amplifier_profiles: the profile merger (merger.py).                     *)
(*                                                                         *)
(* Python values are modelled as records of one uniform shape, so that any *)
(* two values can be compared:                                             *)
(*   t = "s"  a str scalar, its text in s                                  *)
(*   t = "n"  None                                                         *)
(*   t = "l"  a list, its elements in l                                    *)
(*   t = "d"  a dict, its entries in d (a function from key to value)      *)
(*   t = "err" a raised exception, its class name in s                     *)
(* dict equality in Python ignores insertion order, and so does function   *)
(* equality here; where the code relies on insertion order (the result of  *)
(* merge_module_lists) the order is modelled explicitly.                   *)
(*                                                                         *)
(* Every function of merger.py is modelled in "run" form: it returns the   *)
(* value the call returns together with the values its argument objects    *)
(* hold after the call (p for the first argument, c for the second), so    *)
(* that writes through an alias of an argument are visible.                *)
(***************************************************************************)
EXTENDS Integers, Sequences, FiniteSets, TLC

VARIABLES
    parent,      \* the caller's first argument object (parent / inherited / parent_list / parent_item), as it is now
    child,       \* the caller's second argument object (child / exclusions / child_list / child_item), as it is now
    parent0,     \* the value parent had when the caller built it
    child0,      \* the value child had when it was passed to the last call
    returned,    \* what the last call returned
    pc           \* the function called last ("init" before any call)

vars == <<parent, child, parent0, child0, returned, pc>>

----------------------------------------------------------------------------
(* Python values *)

PyStr(x)  == [t |-> "s", s |-> x, l |-> <<>>, d |-> <<>>]
PyNone    == [t |-> "n", s |-> "", l |-> <<>>, d |-> <<>>]
PyList(q) == [t |-> "l", s |-> "", l |-> q, d |-> <<>>]
PyDict(f) == [t |-> "d", s |-> "", l |-> <<>>, d |-> f]
PyErr(e)  == [t |-> "err", s |-> e, l |-> <<>>, d |-> <<>>]

IsStr(v)  == v.t = "s"
IsList(v) == v.t = "l"
IsDict(v) == v.t = "d"
IsErr(v)  == v.t = "err"

EmptyDict == PyDict(<<>>)
EmptyList == PyList(<<>>)

\* Python truthiness (`if x:`)
Truthy(v) ==
    CASE v.t = "s" -> v.s # ""
      [] v.t = "n" -> FALSE
      [] v.t = "l" -> v.l # <<>>
      [] v.t = "d" -> DOMAIN v.d # {}
      [] OTHER     -> TRUE

Keys(v) == DOMAIN v.d
Has(v, k) == k \in DOMAIN v.d

\* v.get(k): None when the key is absent
Get(v, k) == IF Has(v, k) THEN v.d[k] ELSE PyNone

\* v[k] = x on a dict
Put(v, k, x) == PyDict([j \in Keys(v) \cup {k} |-> IF j = k THEN x ELSE v.d[j]])

\* del v[k] / v.pop(k, None) on a dict
Del(v, k) == PyDict([j \in Keys(v) \ {k} |-> v.d[j]])

\* dict.copy(): a new dict object holding the same entries (shallow); fresh
\* says that writes to the copy do not reach the object copied
DictCopyShared(obj) == [obj |-> obj, fresh |-> FALSE]

DictCopy(obj) == [obj |-> obj, fresh |-> TRUE]

----------------------------------------------------------------------------
(* merge_dicts *)

\* the keys of merged once the loop has run: those copied from parent and
\* those the loop over child.items() assigns
MergedKeysChildOnly(p, c) == Keys(c)

MergedKeys(p, c) == Keys(p) \cup Keys(c)

\* line 328: key in merged and isinstance(merged[key], dict) and isinstance(value, dict)
BothDictsAlways(merged, c, k) == Has(merged, k)

BothDicts(merged, c, k) == Has(merged, k) /\ IsDict(merged.d[k]) /\ IsDict(c.d[k])

RECURSIVE merge_dicts_run(_, _)
merge_dicts_run(p, c) ==
    LET cp == DictCopy(p)                         \* merged = parent.copy()
        Rec(k) == BothDicts(cp.obj, c, k)
        Sub(k) == merge_dicts_run(cp.obj.d[k], c.d[k])
        merged == PyDict([k \in MergedKeys(cp.obj, c) |->
                     IF ~Has(c, k) THEN cp.obj.d[k]
                     ELSE IF Rec(k) THEN Sub(k).ret     \* merged[key] = merge_dicts(merged[key], value)
                     ELSE c.d[k]])                      \* merged[key] = value
    IN  [ret |-> merged,
         alias |-> ~cp.fresh,                     \* ret is the object p itself
         \* the parent object: written through merged when the copy is shared,
         \* and otherwise holding whatever the nested calls left in its values
         p   |-> IF cp.fresh
                 THEN PyDict([k \in Keys(p) |->
                         IF Has(c, k) /\ Rec(k) THEN Sub(k).p ELSE p.d[k]])
                 ELSE merged,
         c   |-> PyDict([k \in Keys(c) |->
                         IF Rec(k) THEN Sub(k).c ELSE c.d[k]])]

merge_dicts(p, c) == merge_dicts_run(p, c).ret

----------------------------------------------------------------------------
(* merge_module_items *)

\* lines 289-299: what the loop over child_item.items() leaves under key k
\* of merged, for a key k of child_item
ItemFieldChildWins(merged, c, k) == c.d[k]

ItemField(merged, c, k) ==
    IF k = "config" /\ Has(merged, k)
    THEN IF IsDict(merged.d["config"]) /\ IsDict(c.d[k])
         THEN merge_dicts(merged.d["config"], c.d[k])
         ELSE c.d[k]
    ELSE c.d[k]

merge_module_items_run(p, c) ==
    LET cp == DictCopy(p)                         \* merged = parent_item.copy()
        deep == /\ Has(c, "config") /\ Has(cp.obj, "config")
                /\ IsDict(cp.obj.d["config"]) /\ IsDict(c.d["config"])
        Sub == merge_dicts_run(cp.obj.d["config"], c.d["config"])
        merged == PyDict([k \in Keys(cp.obj) \cup Keys(c) |->
                     IF Has(c, k) THEN ItemField(cp.obj, c, k) ELSE cp.obj.d[k]])
    IN  [ret |-> merged,
         alias |-> ~cp.fresh,
         \* merged["config"] is the object ret holds under "config": p's own
         \* config object ("p"), child's ("c"), or a new one ("new")
         cfg |-> IF ~Has(c, "config") THEN "p"
                 ELSE IF deep THEN (IF Sub.alias THEN "p" ELSE "new")
                 ELSE "c",
         p   |-> IF cp.fresh
                 THEN (IF deep THEN Put(p, "config", Sub.p) ELSE p)
                 ELSE merged,
         c   |-> IF deep THEN Put(c, "config", Sub.c) ELSE c]

merge_module_items(p, c) == merge_module_items_run(p, c).ret

----------------------------------------------------------------------------
(* merge_module_lists *)

\* what a `for item in x` visits; iterating None raises TypeError, and a
\* non-empty str or dict yields str elements
Iterable(x) == x.t # "n"

Iter(x) == IF IsList(x) THEN x.l
           ELSE IF Truthy(x) THEN <<PyStr("?")>>
           ELSE <<>>

\* which input object an object held in `result` is: item i of parent_list
\* (side "p"), item i of child_list (side "c"), or neither (side "-")
NoSrc == [side |-> "-", i |-> 0]
Src(side, i) == [side |-> side, i |-> i]

\* the loops' state: result as an insertion-ordered dict (order, val), for
\* each entry the input item its object is (own) and the input item whose
\* "config" object it holds (cfg), the two input lists as they are now, and
\* the exception raised, if any
MlInit(pl, cl) ==
    [order |-> <<>>, val |-> <<>>, own |-> <<>>, cfg |-> <<>>,
     pl |-> Iter(pl), cl |-> Iter(cl), err |-> ""]

\* result[module_id] = obj: a new key goes to the end, a known key keeps its place
MlStoreAppendAlways(st, id, obj, own, cfg) ==
    [st EXCEPT !.order = Append(@, id),
               !.val = (id :> obj) @@ @,
               !.own = (id :> own) @@ @,
               !.cfg = (id :> cfg) @@ @]

MlStoreMoveToEnd(st, id, obj, own, cfg) ==
    [st EXCEPT !.order = Append(SelectSeq(@, LAMBDA x : x # id), id),
               !.val = (id :> obj) @@ @,
               !.own = (id :> own) @@ @,
               !.cfg = (id :> cfg) @@ @]

MlStore(st, id, obj, own, cfg) ==
    [st EXCEPT !.order = IF id \in DOMAIN st.val THEN @ ELSE Append(@, id),
               !.val = (id :> obj) @@ @,
               !.own = (id :> own) @@ @,
               !.cfg = (id :> cfg) @@ @]

\* a write to the whole object src names, and a write to its "config" object
MlWriteItem(st, src, obj) ==
    IF src.side = "p" THEN [st EXCEPT !.pl[src.i] = obj]
    ELSE IF src.side = "c" THEN [st EXCEPT !.cl[src.i] = obj]
    ELSE st

MlWriteCfg(st, src, obj) ==
    IF src.side = "p" THEN [st EXCEPT !.pl[src.i] = Put(@, "config", obj)]
    ELSE IF src.side = "c" THEN [st EXCEPT !.cl[src.i] = Put(@, "config", obj)]
    ELSE st

\* module_id = item.get("module"): "AttributeError" when item is no dict,
\* "TypeError" when the id is truthy and unhashable, "skip" when it is falsy
MlIdKeepsUnidentified(item) ==
    IF ~IsDict(item) THEN [err |-> "AttributeError", skip |-> FALSE, id |-> ""]
    ELSE IF ~Truthy(Get(item, "module")) THEN [err |-> "", skip |-> FALSE, id |-> ""]
    ELSE IF ~IsStr(Get(item, "module")) THEN [err |-> "TypeError", skip |-> FALSE, id |-> ""]
    ELSE [err |-> "", skip |-> FALSE, id |-> Get(item, "module").s]

MlIdNameFirst(item) ==
    LET key == IF IsDict(item) /\ Has(item, "name") THEN "name" ELSE "module"
    IN  IF ~IsDict(item) THEN [err |-> "AttributeError", skip |-> FALSE, id |-> ""]
        ELSE IF ~Truthy(Get(item, key)) THEN [err |-> "", skip |-> TRUE, id |-> ""]
        ELSE IF ~IsStr(Get(item, key)) THEN [err |-> "TypeError", skip |-> FALSE, id |-> ""]
        ELSE [err |-> "", skip |-> FALSE, id |-> Get(item, key).s]

MlId(item) ==
    IF ~IsDict(item) THEN [err |-> "AttributeError", skip |-> FALSE, id |-> ""]
    ELSE IF ~Truthy(Get(item, "module")) THEN [err |-> "", skip |-> TRUE, id |-> ""]
    ELSE IF ~IsStr(Get(item, "module")) THEN [err |-> "TypeError", skip |-> FALSE, id |-> ""]
    ELSE [err |-> "", skip |-> FALSE, id |-> Get(item, "module").s]

\* lines 243-246
MlParentStep(st, i) ==
    LET item == st.pl[i]
        m == MlId(item)
        cp == DictCopy(item)
    IN  IF st.err # "" THEN st
        ELSE IF m.err # "" THEN [st EXCEPT !.err = m.err]
        ELSE IF m.skip THEN st
        ELSE MlStore(st, m.id, cp.obj,
                     IF cp.fresh THEN NoSrc ELSE Src("p", i),
                     IF Has(item, "config") THEN Src("p", i) ELSE NoSrc)

\* line 257: result[module_id] = merge_module_items(result[module_id], child_item),
\* where r is what the call returned and did to the two objects it was given
MlMergeStep(st, j, id, r) ==
    LET old == st.val[id]
        s1 == IF st.own[id] # NoSrc
              THEN MlWriteItem(st, st.own[id], r.p)
              ELSE IF Has(old, "config") /\ Has(r.p, "config")
              THEN MlWriteCfg(st, st.cfg[id], r.p.d["config"])
              ELSE st
        s2 == [s1 EXCEPT !.cl[j] = r.c]
    IN  MlStore(s2, id, r.ret,
                IF r.alias THEN st.own[id] ELSE NoSrc,
                IF r.cfg = "p" THEN st.cfg[id]
                ELSE IF r.cfg = "c" THEN Src("c", j)
                ELSE NoSrc)

\* lines 249-260
MlChildStep(st, j) ==
    LET item == st.cl[j]
        m == MlId(item)
        cp == DictCopy(item)
    IN  IF st.err # "" THEN st
        ELSE IF m.err # "" THEN [st EXCEPT !.err = m.err]
        ELSE IF m.skip THEN st
        ELSE IF m.id \in DOMAIN st.val
        THEN MlMergeStep(st, j, m.id, merge_module_items_run(st.val[m.id], item))
        ELSE MlStore(st, m.id, cp.obj,
                     IF cp.fresh THEN NoSrc ELSE Src("c", j),
                     IF Has(item, "config") THEN Src("c", j) ELSE NoSrc)

RECURSIVE MlParentLoop(_, _)
MlParentLoop(st, i) ==
    IF i > Len(st.pl) THEN st ELSE MlParentLoop(MlParentStep(st, i), i + 1)

RECURSIVE MlChildLoop(_, _)
MlChildLoop(st, j) ==
    IF j > Len(st.cl) THEN st ELSE MlChildLoop(MlChildStep(st, j), j + 1)

\* lines 243-246: the loop over parent_list
MlParentPhase(pl, cl) ==
    IF Iterable(pl) THEN MlParentLoop(MlInit(pl, cl), 1)
    ELSE [MlInit(pl, cl) EXCEPT !.err = "TypeError"]

\* lines 249-260: the loop over child_list, from the state s1 the first loop left
MlChildPhase(s1, cl) ==
    IF s1.err = "" /\ ~Iterable(cl) THEN [s1 EXCEPT !.err = "TypeError"]
    ELSE MlChildLoop(s1, 1)

\* line 263: return list(result.values()), from the state s2 the loops left
MlReturn(s2, pl, cl) ==
    [ret |-> IF s2.err # "" THEN PyErr(s2.err)
             ELSE PyList([n \in 1..Len(s2.order) |-> s2.val[s2.order[n]]]),
     p   |-> IF IsList(pl) THEN PyList(s2.pl) ELSE pl,
     c   |-> IF IsList(cl) THEN PyList(s2.cl) ELSE cl]

merge_module_lists_run(pl, cl) ==
    MlReturn(MlChildPhase(MlParentPhase(pl, cl), cl), pl, cl)

merge_module_lists(pl, cl) == merge_module_lists_run(pl, cl).ret

----------------------------------------------------------------------------
(* apply_exclusions *)

ModuleSections == {"tools", "hooks", "providers"}
All == PyStr("all")

\* x in lst
InList(x, lst) == \E n \in 1..Len(lst.l) : lst.l[n] = x

\* [item for item in lst if keep(item)]
Filter(lst, keep(_)) == PyList(SelectSeq(lst.l, keep))

\* _apply_exclude_all, lines 79-92
ExcludeAllDelete(result, section) == Del(result, section)

ExcludeAll(result, section) ==
    IF section \in ModuleSections THEN Put(result, section, EmptyList)
    ELSE IF section = "agents"
         THEN IF IsDict(result.d[section])
              THEN Put(result, section, EmptyDict)
              ELSE Put(result, section, PyStr("none"))
    ELSE Del(result, section)

\* _apply_exclude_list, lines 95-105; item.get raises AttributeError on an
\* element of a module list that is no dict
ExcludeListErr(result, section) ==
    /\ section \in ModuleSections
    /\ IsList(result.d[section])
    /\ \E n \in 1..Len(result.d[section].l) : ~IsDict(result.d[section].l[n])

ExcludeListApplies(result, section) ==
    \/ section \in ModuleSections /\ IsList(result.d[section])
    \/ section = "agents" /\ (IsList(result.d[section]) \/ IsDict(result.d[section]))

ExcludeListKeepListed(result, section, exclusion_list) ==
    IF section \in ModuleSections /\ IsList(result.d[section])
    THEN Put(result, section,
             Filter(result.d[section], LAMBDA item : InList(Get(item, "module"), exclusion_list)))
    ELSE result

ExcludeList(result, section, exclusion_list) ==
    IF section \in ModuleSections /\ IsList(result.d[section])
    THEN Put(result, section,
             Filter(result.d[section], LAMBDA item : ~InList(Get(item, "module"), exclusion_list)))
    ELSE IF section = "agents" /\ IsList(result.d[section])
    THEN Put(result, section,
             Filter(result.d[section], LAMBDA agent : ~InList(agent, exclusion_list)))
    ELSE IF section = "agents" /\ IsDict(result.d[section])
    THEN Put(result, section,
             PyDict([k \in {j \in Keys(result.d[section]) : ~InList(PyStr(j), exclusion_list)}
                       |-> result.d[section].d[k]]))
    ELSE result

\* _apply_exclude_nested, lines 119-131: one pass of the loop over nested_exclusions
NestedStepAllDeletes(section_copy, nested_key, nested_exclusion) ==
    IF ~Has(section_copy, nested_key) THEN section_copy
    ELSE IF nested_exclusion = All THEN Del(section_copy, nested_key)
    ELSE IF IsList(nested_exclusion) /\ IsList(section_copy.d[nested_key])
    THEN Put(section_copy, nested_key,
             Filter(section_copy.d[nested_key], LAMBDA item : ~InList(item, nested_exclusion)))
    ELSE section_copy

NestedStep(section_copy, nested_key, nested_exclusion) ==
    IF ~Has(section_copy, nested_key) THEN section_copy
    ELSE IF nested_exclusion = All
    THEN IF IsList(section_copy.d[nested_key])
         THEN Put(section_copy, nested_key, EmptyList)
         ELSE Del(section_copy, nested_key)
    ELSE IF IsList(nested_exclusion) /\ IsList(section_copy.d[nested_key])
    THEN Put(section_copy, nested_key,
             Filter(section_copy.d[nested_key], LAMBDA item : ~InList(item, nested_exclusion)))
    ELSE section_copy

RECURSIVE NestedLoop(_, _, _)
NestedLoop(section_copy, nested_exclusions, todo) ==
    IF todo = {} THEN section_copy
    ELSE LET k == CHOOSE x \in todo : TRUE
         IN  NestedLoop(NestedStep(section_copy, k, nested_exclusions.d[k]),
                        nested_exclusions, todo \ {k})

\* one pass of the loop of apply_exclusions, lines 59-74. The state: result,
\* the values the objects inherited held are left with (deep), the sections
\* whose entry in result now holds another object (written), the exception
AeSkipsAbsentNever(st, section) == FALSE

AeSkipsAbsent(st, section) == ~Has(st.result, section)

\* result[section] on a section result does not hold raises KeyError
AeKeyError(result, section, v) ==
    /\ ~Has(result, section)
    /\ \/ v = All /\ section \notin ModuleSections
       \/ IsList(v) /\ section \in ModuleSections \cup {"agents"}

AeStep(st, exclusions, section) ==
    LET v == exclusions.d[section]
        cp == DictCopy(st.result.d[section])         \* section_copy = result[section].copy()
        sc == NestedLoop(cp.obj, v, Keys(v))
    IN  IF st.err # "" THEN st
        ELSE IF AeSkipsAbsent(st, section) THEN st
        ELSE IF AeKeyError(st.result, section, v) THEN [st EXCEPT !.err = "KeyError"]
        ELSE IF v = All
        THEN [st EXCEPT !.result = ExcludeAll(@, section),
                        !.written = @ \cup {section}]
        ELSE IF IsList(v)
        THEN IF ~Has(st.result, section) THEN st
             ELSE IF ExcludeListErr(st.result, section)
             THEN [st EXCEPT !.err = "AttributeError"]
             ELSE [st EXCEPT !.result = ExcludeList(@, section, v),
                             !.written = IF ExcludeListApplies(st.result, section)
                                         THEN @ \cup {section} ELSE @]
        ELSE IF IsDict(v)
        THEN IF ~IsDict(Get(st.result, section)) THEN st
             ELSE IF cp.fresh
             THEN [st EXCEPT !.result = Put(@, section, sc),
                             !.written = @ \cup {section}]
             ELSE [st EXCEPT !.result = Put(@, section, sc),
                             !.deep = Put(@, section, sc)]
        ELSE st

RECURSIVE AeLoop(_, _, _)
AeLoop(st, exclusions, todo) ==
    IF todo = {} THEN st
    ELSE LET k == CHOOSE x \in todo : TRUE
         IN  AeLoop(AeStep(st, exclusions, k), exclusions, todo \ {k})

\* line 76: return result, from the state st the loop left; fresh says that
\* result is a copy of inherited and not inherited itself
AeReturn(st, fresh, exclusions) ==
    [ret |-> IF st.err # "" THEN PyErr(st.err) ELSE st.result,
     alias |-> ~fresh,
     deep |-> st.deep,
     written |-> st.written,
     p |-> IF fresh THEN st.deep ELSE st.result,
     c |-> exclusions]

apply_exclusions_run(inherited, exclusions) ==
    LET cp == DictCopy(inherited)                    \* result = inherited.copy()
        st0 == [result |-> cp.obj, deep |-> inherited, written |-> {}, err |-> ""]
    IN  AeReturn(IF IsDict(exclusions) THEN AeLoop(st0, exclusions, Keys(exclusions))
                 ELSE [st0 EXCEPT !.err = "AttributeError"],    \* exclusions.items()
                 cp.fresh, exclusions)

apply_exclusions(inherited, exclusions) == apply_exclusions_run(inherited, exclusions).ret

----------------------------------------------------------------------------
(* merge_profile_dicts *)

\* line 191: exclusions = child_copy.pop("exclude", None); child_copy afterwards
PopExcludeKeep(child_copy) == child_copy

PopExclude(child_copy) == Del(child_copy, "exclude")

\* lines 200-211: which branch the loop takes for a key of child_copy
MergeKindNoLists(merged, child_copy, key) ==
    IF ~Has(merged, key) THEN "add"
    ELSE IF IsDict(child_copy.d[key]) /\ IsDict(merged.d[key]) THEN "dicts"
    ELSE "set"

MergeKindAgentsAsModules(merged, child_copy, key) ==
    IF ~Has(merged, key) THEN "add"
    ELSE IF key \in {"hooks", "tools", "providers", "agents"} THEN "modules"
    ELSE IF IsDict(child_copy.d[key]) /\ IsDict(merged.d[key]) THEN "dicts"
    ELSE "set"

MergeKindChildReplaces(merged, child_copy, key) ==
    IF ~Has(merged, key) THEN "add"
    ELSE IF key \in {"hooks", "tools", "providers"} THEN "modules"
    ELSE "set"

MergeKind(merged, child_copy, key) ==
    IF ~Has(merged, key) THEN "add"
    ELSE IF key \in {"hooks", "tools", "providers"} THEN "modules"
    ELSE IF IsDict(child_copy.d[key]) /\ IsDict(merged.d[key]) THEN "dicts"
    ELSE "set"

\* lines 194-197: merged = parent.copy(), put through apply_exclusions when
\* exclusions is truthy; ae is what apply_exclusions(merged, exclusions) did.
\* base is merged, shared says that merged is the object parent, written the
\* sections of merged holding another object than parent's, deep the values
\* parent's objects are left with
MpInheritSkipsExclusions(p, mcp, exclusions, ae) ==
    [base |-> mcp.obj, shared |-> ~mcp.fresh, written |-> {}, deep |-> p, p |-> p]

MpInheritAlwaysExcludes(p, mcp, exclusions, ae) ==
    [base |-> ae.ret, shared |-> ~mcp.fresh /\ ae.alias,
     written |-> ae.written, deep |-> ae.deep, p |-> ae.p]

MpInherit(p, mcp, exclusions, ae) ==
    IF Truthy(exclusions)                            \* if exclusions:
    THEN [base |-> ae.ret, shared |-> ~mcp.fresh /\ ae.alias,
          written |-> ae.written, deep |-> ae.deep, p |-> ae.p]
    ELSE [base |-> mcp.obj, shared |-> ~mcp.fresh,
          written |-> {}, deep |-> p, p |-> p]

\* lines 201-207: does the loop call a merger for key k, and the call it makes
MpCalled(base, child_copy, k) ==
    Has(child_copy, k) /\ MergeKind(base, child_copy, k) \in {"modules", "dicts"}

MpCall(base, child_copy, k) ==
    IF MergeKind(base, child_copy, k) = "modules"
    THEN merge_module_lists_run(base.d[k], child_copy.d[k])
    ELSE merge_dicts_run(base.d[k], child_copy.d[k])

MpCalls(base, child_copy) ==
    [k \in {j \in Keys(child_copy) : MpCalled(base, child_copy, j)} |->
        MpCall(base, child_copy, k)]

\* lines 199-213: the loop over child_copy.items() and the return; inh is
\* what lines 194-197 left, calls what the mergers the loop calls did
MpLoop(p, c, ccp, mcp, child_copy, inh, calls) ==
    LET base == inh.base
        failed == {k \in DOMAIN calls : IsErr(calls[k].ret)}
        merged == PyDict([k \in Keys(base) \cup Keys(child_copy) |->
                     IF ~Has(child_copy, k) THEN base.d[k]
                     ELSE IF k \in DOMAIN calls THEN calls[k].ret
                     ELSE child_copy.d[k]])
    IN  IF IsErr(base)
        THEN [ret |-> base, p |-> IF mcp.fresh THEN inh.deep ELSE inh.p,
              c |-> IF ccp.fresh THEN c ELSE child_copy]
        ELSE
        [ret |-> IF failed # {} THEN calls[CHOOSE k \in failed : TRUE].ret ELSE merged,
         p   |-> IF inh.shared THEN merged
                 ELSE PyDict([k \in Keys(p) |->
                        IF k \notin inh.written /\ Has(base, k) /\ k \in DOMAIN calls
                        THEN calls[k].p ELSE inh.deep.d[k]]),
         c   |-> PyDict([k \in (IF ccp.fresh THEN Keys(c) ELSE Keys(child_copy)) |->
                        IF k \in DOMAIN calls THEN calls[k].c ELSE c.d[k]])]

MpMerge(p, c, ccp, mcp, child_copy, inh) ==
    MpLoop(p, c, ccp, mcp, child_copy, inh, MpCalls(inh.base, child_copy))

merge_profile_dicts_run(p, c) ==
    LET ccp == DictCopy(c)                           \* child_copy = child.copy()
        exclusions == Get(ccp.obj, "exclude")
        child_copy == PopExclude(ccp.obj)
        mcp == DictCopy(p)                           \* merged = parent.copy()
    IN  MpMerge(p, c, ccp, mcp, child_copy,
                MpInherit(p, mcp, exclusions, apply_exclusions_run(mcp.obj, exclusions)))

merge_profile_dicts(p, c) == merge_profile_dicts_run(p, c).ret

----------------------------------------------------------------------------
(* schema.py, agent_schema.py: a pydantic object is modelled by the dict of  *)
(* its declared fields                                                       *)

\* ModuleConfig(module, source, config)
ModuleConfig(module, source, config) ==
    PyDict("module" :> PyStr(module) @@ "source" :> source @@ "config" :> config)

\* the fields AgentsConfig declares (include-only is the alias of include_only)
AgentsConfigFields == {"items", "dirs", "include_only"}

\* obj.name on a model whose class declares fields: AttributeError for a
\* name the class does not declare
Attr(obj, fields, name) ==
    IF name \in fields THEN obj.d[name] ELSE PyErr("AttributeError")

\* ModuleConfig.to_dict
to_dict(m) ==
    LET r1 == PyDict("module" :> m.d["module"])
        r2 == IF m.d["source"] # PyNone THEN Put(r1, "source", m.d["source"]) ELSE r1
    IN  IF m.d["config"] # PyNone THEN Put(r2, "config", m.d["config"]) ELSE r2

\* [m.to_dict() for m in modules]
ToDicts(modules) == [n \in 1..Len(modules) |-> to_dict(modules[n])]

\* one optional entry of the fragment: set when the condition holds
FragmentEntry(result, cond, key, value) ==
    IF cond THEN Put(result, key, value) ELSE result

\* Agent.to_mount_plan_fragment, agent_schema.py lines 99-128
to_mount_plan_fragment(agent) ==
    LET r0 == PyDict("description" :> agent.d["meta"].d["description"])
        r1 == FragmentEntry(r0, Truthy(agent.d["providers"]), "providers", agent.d["providers"])
        r2 == FragmentEntry(r1, Truthy(agent.d["tools"]), "tools", agent.d["tools"])
        r3 == FragmentEntry(r2, Truthy(agent.d["hooks"]), "hooks", agent.d["hooks"])
        r4 == FragmentEntry(r3, Truthy(agent.d["session"]), "session", agent.d["session"])
        r5 == FragmentEntry(r4, Truthy(agent.d["system"]), "system",
                            PyDict("instruction" :> agent.d["system"].d["instruction"]))
        r6 == FragmentEntry(r5, agent.d["agents"] # PyNone, "agents", agent.d["agents"])
    IN  FragmentEntry(r6, agent.d["exclude"] # PyNone, "exclude", agent.d["exclude"])

----------------------------------------------------------------------------
(* compiler.py *)

\* _merge_module_list, lines 188-193: result_dict after the loop over base_modules
RECURSIVE MmlBaseDict(_, _)
MmlBaseDict(base_modules, n) ==
    IF n = 0 THEN <<>>
    ELSE (base_modules[n].d["module"].s :> base_modules[n]) @@ MmlBaseDict(base_modules, n - 1)

\* lines 196-203: result_dict after the loop over the first n overlay records
RECURSIVE MmlOverlayDict(_, _, _)
MmlOverlayDict(result_dict, overlay_dicts, n) ==
    IF n = 0 THEN result_dict
    ELSE LET before == MmlOverlayDict(result_dict, overlay_dicts, n - 1)
             overlay_module == overlay_dicts[n]
             module_id == overlay_module.d["module"].s
         IN  IF module_id \in DOMAIN before
             THEN (module_id :> merge_module_items(before[module_id], overlay_module)) @@ before
             ELSE (module_id :> overlay_module) @@ before

\* lines 206-213: the base records in base order, then the new overlay records
MmlAssembleOverlayFirst(kept, added) == added \o kept

MmlAssembleBaseOnly(kept, added) == kept

MmlAssemble(kept, added) == kept \o added

\* lines 206-213, on the result_dict the loops left
MmlResult(base_modules, overlay_dicts, result_dict) ==
    MmlAssemble([n \in 1..Len(base_modules) |-> result_dict[base_modules[n].d["module"].s]],
                SelectSeq(overlay_dicts,
                          LAMBDA m : \A n \in 1..Len(base_modules) :
                                        base_modules[n].d["module"] # m.d["module"]))

\* _merge_module_list(base_modules, overlay_modules), on the elements of the lists
merge_module_list(base_modules, overlay_modules) ==
    MmlResult(base_modules, ToDicts(overlay_modules),
              MmlOverlayDict(MmlBaseDict(base_modules, Len(base_modules)),
                             ToDicts(overlay_modules), Len(overlay_modules)))

\* lines 149 / 160: the config the plan holds once the overlay has set one
OverlayConfigDeepMerged(block, config) ==
    IF Has(block, "config") /\ IsDict(block.d["config"])
    THEN merge_dicts(block.d["config"], config)
    ELSE config

OverlayConfig(block, config) == config

\* lines 140-149 (which = "orchestrator") and 151-160 (which = "context"):
\* the plan after the overlay's session module m
MergeSessionModuleKeepsSource(mount_plan, which, source_key, m) ==
    LET s1 == Put(mount_plan.d["session"], which, m.d["module"])
        s2 == IF Truthy(m.d["source"]) THEN Put(s1, source_key, m.d["source"]) ELSE s1
        p1 == Put(mount_plan, "session", s2)
        block == IF Has(p1, which) THEN p1.d[which] ELSE EmptyDict
    IN  IF Truthy(m.d["config"])
        THEN Put(p1, which, Put(block, "config", OverlayConfig(block, m.d["config"])))
        ELSE p1

MergeSessionModule(mount_plan, which, source_key, m) ==
    LET s1 == Put(mount_plan.d["session"], which, m.d["module"])
        s2 == IF Truthy(m.d["source"]) THEN Put(s1, source_key, m.d["source"])
              ELSE Del(s1, source_key)
        p1 == Put(mount_plan, "session", s2)
        block == IF Has(p1, which) THEN p1.d[which] ELSE EmptyDict
    IN  IF Truthy(m.d["config"])
        THEN Put(p1, which, Put(block, "config", OverlayConfig(block, m.d["config"])))
        ELSE p1

\* lines 163-165, one module list
MergeSection(mount_plan, overlay, section) ==
    Put(mount_plan, section,
        PyList(merge_module_list(mount_plan.d[section].l, overlay.d[section].l)))

\* _merge_profile_into_mount_plan
merge_profile_into_mount_plan(mount_plan, overlay) ==
    MergeSection(
      MergeSection(
        MergeSection(
          MergeSessionModule(
            MergeSessionModule(mount_plan, "orchestrator", "orchestrator_source",
                               overlay.d["session"].d["orchestrator"]),
            "context", "context_source", overlay.d["session"].d["context"]),
          overlay, "providers"),
        overlay, "tools"),
      overlay, "hooks")

\* compile_profile_to_mount_plan, lines 51-83: the plan from the base's session module m
SkeletonSession(mount_plan, which, source_key, m) ==
    LET config == IF Truthy(m.d["config"]) THEN m.d["config"] ELSE EmptyDict   \* config or {}
        s1 == Put(mount_plan.d["session"], which, m.d["module"])
        s2 == IF Truthy(m.d["source"]) THEN Put(s1, source_key, m.d["source"]) ELSE s1
        p1 == Put(mount_plan, "session", s2)
    IN  IF Truthy(config) THEN Put(p1, which, PyDict("config" :> config)) ELSE p1

\* lines 62-88: the plan before the overlays
Skeleton(base) ==
    SkeletonSession(
      SkeletonSession(
        PyDict("session" :> EmptyDict
               @@ "providers" :> PyList(ToDicts(base.d["providers"].l))
               @@ "tools" :> PyList(ToDicts(base.d["tools"].l))
               @@ "hooks" :> PyList(ToDicts(base.d["hooks"].l))
               @@ "agents" :> EmptyList),
        "orchestrator", "orchestrator_source", base.d["session"].d["orchestrator"]),
      "context", "context_source", base.d["session"].d["context"])

\* lines 91-92: the plan after the first n overlays
RECURSIVE FoldOverlays(_, _, _)
FoldOverlays(mount_plan, overlays, n) ==
    IF n = 0 THEN mount_plan
    ELSE merge_profile_into_mount_plan(FoldOverlays(mount_plan, overlays, n - 1), overlays[n])

\* the agent loader the app injects: list_agents() and load_agent(name),
\* which fails on a name it cannot load
list_agents(agent_loader) == agent_loader.d["list_agents"]

load_agent(agent_loader, agent_name) ==
    IF Has(agent_loader.d["agents"], agent_name.s)
    THEN agent_loader.d["agents"].d[agent_name.s]
    ELSE PyErr("NotFound")

\* line 96: if base.agents and agent_loader is not None
LoadsAgentsWithoutLoader(base, agent_loader) == Truthy(base.d["agents"])

LoadsAgents(base, agent_loader) ==
    Truthy(base.d["agents"]) /\ agent_loader # PyNone

\* lines 100-105: agent_names_to_load; the attribute read on line 100 raises
\* where AgentsConfig declares no such field
AgentNamesFrom(include, agents, agent_loader) ==
    IF IsErr(include) THEN include
    ELSE IF Truthy(include) THEN include
    ELSE IF Truthy(agents.d["dirs"]) THEN list_agents(agent_loader)
    ELSE EmptyList

AgentNamesToLoad(agents, agent_loader) ==
    AgentNamesFrom(Attr(agents, AgentsConfigFields, "include"), agents, agent_loader)

\* lines 108-117: agents_list after the first n names; a failure inside the
\* try skips the name
LoadedAgent(agents_list, agent_name, agent) ==
    IF IsErr(agent) THEN agents_list
    ELSE Append(agents_list, Put(to_mount_plan_fragment(agent), "name", agent_name))

RECURSIVE LoadAgents(_, _, _)
LoadAgents(names, agent_loader, n) ==
    IF n = 0 THEN <<>>
    ELSE LoadedAgent(LoadAgents(names, agent_loader, n - 1), names[n],
                     load_agent(agent_loader, names[n]))

\* lines 96-123, on the plan the overlays left
CompileAgents(mount_plan, names, agent_loader) ==
    IF IsErr(names) THEN names
    ELSE Put(mount_plan, "agents", PyList(LoadAgents(names.l, agent_loader, Len(names.l))))

compile_profile_to_mount_plan(base, overlays, agent_loader) ==
    IF LoadsAgents(base, agent_loader)
    THEN CompileAgents(FoldOverlays(Skeleton(base), overlays.l, Len(overlays.l)),
                       AgentNamesToLoad(base.d["agents"], agent_loader), agent_loader)
    ELSE Put(FoldOverlays(Skeleton(base), overlays.l, Len(overlays.l)), "agents", EmptyList)

----------------------------------------------------------------------------
(* Inputs *)

MaxParentNodes == 3
MaxChildNodes == 2

TreeKeys == {"a", "b"}
Leaves == {PyStr("1"), PyStr("2"), PyList(<<PyStr("1")>>), PyList(<<PyStr("2")>>)}

\* the number of dict entries in a value, at every depth
RECURSIVE Nodes(_)
Nodes(v) ==
    IF IsDict(v)
    THEN LET RECURSIVE Sum(_)
             Sum(S) == IF S = {} THEN 0
                       ELSE LET k == CHOOSE x \in S : TRUE
                            IN  1 + Nodes(v.d[k]) + Sum(S \ {k})
         IN  Sum(Keys(v))
    ELSE 0

\* the dicts over TreeKeys with at most n entries in all
RECURSIVE TreesUpTo(_)
TreesUpTo(n) ==
    IF n = 0 THEN {EmptyDict}
    ELSE LET Vals == Leaves \cup TreesUpTo(n - 1)
             Fns  == UNION {[K -> Vals] : K \in SUBSET TreeKeys}
         IN  {t \in {PyDict(f) : f \in Fns} : Nodes(t) <= n}

ParentTrees == TreesUpTo(MaxParentNodes)
ChildTrees == TreesUpTo(MaxChildNodes)

\* an optional field: absent, or holding one of Vs
Opt(k, Vs) == {<<>>} \cup {k :> v : v \in Vs}

\* two module records with the same identifier, for merge_module_items
ParentConfigs ==
    {PyDict("x" :> PyStr("1")), PyDict("x" :> PyDict("y" :> PyStr("1"))),
     PyStr("raw"), PyNone}
ChildConfigs ==
    {PyDict("y" :> PyStr("2")), PyDict("x" :> PyStr("2")),
     PyDict("x" :> PyDict("z" :> PyStr("2"))), EmptyDict, PyStr("raw"), PyNone}
ParentItems ==
    {PyDict(("module" :> PyStr("A")) @@ a @@ b @@ e) :
        a \in Opt("source", {PyStr("P"), PyNone}),
        b \in Opt("config", ParentConfigs),
        e \in Opt("custom", {PyStr("p")})}
ChildItems ==
    {PyDict(("module" :> PyStr("A")) @@ a @@ b @@ e) :
        a \in Opt("source", {PyStr("C"), PyStr(""), PyNone}),
        b \in Opt("config", ChildConfigs),
        e \in Opt("custom", {PyStr("c")})}

\* module lists: records with or without an identifier, a list may repeat one
MaxListLen == 2
ModuleIds == {"A", "B"}
SeqsUpTo(S, n) == UNION {[1..m -> S] : m \in 0..n}
ListItems(src, cfg) ==
    {PyDict("module" :> PyStr(id)) : id \in ModuleIds}
    \cup {PyDict("module" :> PyStr(id) @@ "source" :> PyStr(src) @@ "config" :> cfg) :
             id \in ModuleIds}
    \cup {PyDict("source" :> PyStr(src))}
\* lists with records that carry a name field, with and without a module field
Named(name, f) == PyDict("name" :> PyStr(name) @@ f)
NamedParentLists ==
    {PyList(<<Named("N", "source" :> PyStr("P"))>>),
     PyList(<<Named("N", "module" :> PyStr("A")), Named("M", <<>>)>>)}
NamedChildLists ==
    {PyList(<<Named("N", "source" :> PyStr("C"))>>),
     PyList(<<Named("N", "module" :> PyStr("B"))>>),
     PyList(<<Named("M", "source" :> PyStr("C")), Named("K", <<>>)>>)}

ParentLists ==
    {PyList(q) : q \in SeqsUpTo(ListItems("P", PyDict("x" :> PyStr("1"))), MaxListLen)}
    \cup NamedParentLists
ChildLists ==
    {PyList(q) : q \in SeqsUpTo(ListItems("C", PyDict("y" :> PyStr("2"))), MaxListLen)}
    \cup NamedChildLists


\* profile trees
ToolA == PyDict("module" :> PyStr("A") @@ "source" :> PyStr("P")
                @@ "config" :> PyDict("x" :> PyStr("1")))
ToolB == PyDict("module" :> PyStr("B"))
ToolC == PyDict("module" :> PyStr("C") @@ "source" :> PyStr("P"))
Names(q) == PyList([n \in 1..Len(q) |-> PyStr(q[n])])
Fragment(text) == PyDict("description" :> PyStr(text))

\* agent records of a discovery spec, and discovery specs
AgentItems(q) == PyList([n \in 1..Len(q) |-> PyDict("name" :> PyStr(q[n]))])
ParentDiscovery ==
    PyDict("items" :> AgentItems(<<"A", "B", "C">>) @@ "dirs" :> Names(<<"./agents">>))
ChildDiscovery ==
    PyDict("items" :> AgentItems(<<"D">>) @@ "include-only" :> Names(<<"A", "D">>))

ParentProfiles ==
    {PyDict(t @@ h @@ a @@ s @@ x) :
        t \in Opt("tools", {EmptyList, PyList(<<ToolA, ToolB, ToolC>>)}),
        h \in Opt("hooks", {PyList(<<ToolB>>)}),
        a \in Opt("agents", {Names(<<"a1", "a2", "a3">>), PyStr("all"),
                             PyDict("a1" :> Fragment("one") @@ "a2" :> Fragment("two")),
                             ParentDiscovery}),
        s \in Opt("session", {PyDict("o" :> PyStr("X") @@ "items" :> Names(<<"i1", "i2">>))}),
        x \in Opt("exclude", {PyDict("tools" :> All)})}
    \cup {PyDict("session" :> PyStr("default")),
          PyDict("session" :> PyStr("default") @@ "tools" :> PyList(<<ToolA, ToolB, ToolC>>)
                 @@ "agents" :> Names(<<"a1", "a2", "a3">>))}

\* exclusion rules, by section; no parent profile has a providers section
RuleSections == {"tools", "hooks", "providers", "agents", "session", "exclude"}
RulesFor(section) ==
    CASE section = "tools" -> {All, Names(<<"B">>), Names(<<"Z">>), Names(<<"C", "A">>)}
      [] section = "hooks" -> {All, Names(<<"B">>)}
      [] section = "providers" -> {All, Names(<<"A">>)}
      [] section = "agents" -> {All, Names(<<"a2">>), Names(<<"zz">>), PyDict("a1" :> All)}
      [] section = "session" -> {All, Names(<<"i1">>), PyDict("items" :> All),
                                 PyDict("items" :> Names(<<"i1">>)),
                                 PyDict("o" :> All), PyDict("zz" :> All),
                                 PyDict("o" :> Names(<<"X">>) @@ "items" :> Names(<<"i2", "zz">>))}
      [] section = "exclude" -> {All}

\* the exclusion specs with at most n rules, over the sections secs
RECURSIVE RulesOver(_, _)
RulesOver(secs, n) ==
    IF secs = {} \/ n = 0 THEN {<<>>}
    ELSE LET s == CHOOSE x \in secs : TRUE
             rest == secs \ {s}
         IN  RulesOver(rest, n)
             \cup {(s :> r) @@ f : r \in RulesFor(s), f \in RulesOver(rest, n - 1)}

MaxRules == 2
MaxChildRules == 1
ExclusionSpecs == {PyDict(f) : f \in RulesOver(RuleSections, MaxRules)}

\* a child's list that repeats identifier D and holds a record without one
RepeatingTools ==
    PyList(<<PyDict("module" :> PyStr("D") @@ "source" :> PyStr("C")),
             PyDict("source" :> PyStr("C")),
             PyDict("module" :> PyStr("D"))>>)

ChildProfiles ==
    {PyDict(x @@ t @@ s @@ a) :
        x \in Opt("exclude", {PyDict(f) : f \in RulesOver(RuleSections, MaxChildRules)}
                              \cup {PyNone}),
        t \in Opt("tools", {PyList(<<PyDict("module" :> PyStr("A")
                                             @@ "config" :> PyDict("y" :> PyStr("2")))>>),
                            PyList(<<PyDict("module" :> PyStr("D") @@ "source" :> PyStr("C"))>>),
                            PyNone}),
        s \in Opt("session", {PyDict("o" :> PyStr("Y"))}),
        a \in Opt("agents", {Names(<<"a4">>), ChildDiscovery})}
    \cup {PyDict("session" :> PyStr("custom")),
          PyDict("tools" :> RepeatingTools),
          PyDict("tools" :> RepeatingTools @@ "session" :> PyStr("custom")
                 @@ "exclude" :> PyDict("tools" :> Names(<<"B">>))),
          PyDict("tools" :> PyList(<<PyDict("module" :> PyStr("A") @@ "config" :> PyStr("raw"))>>))}

\* profiles for the compiler: Profile objects (schema.py), by their fields
MaxOverlays == 2

Session(orchestrator, context) ==
    PyDict("orchestrator" :> orchestrator @@ "context" :> context)
AgentsConfig(items, dirs, include_only) ==
    PyDict("items" :> items @@ "dirs" :> dirs @@ "include_only" :> include_only)
Profile(session, agents, providers, tools, hooks) ==
    PyDict("session" :> session @@ "agents" :> agents @@ "providers" :> PyList(providers)
           @@ "tools" :> PyList(tools) @@ "hooks" :> PyList(hooks))

ToolFs == ModuleConfig("tool-fs", PyStr("git+fs"), PyDict("root" :> PyStr("/")))
ToolFsBare == ModuleConfig("tool-fs", PyNone, PyNone)
ToolBash == ModuleConfig("tool-bash", PyNone, PyNone)
ToolBashSafe == ModuleConfig("tool-bash", PyNone, PyDict("safe" :> PyStr("1")))
ToolWeb == ModuleConfig("tool-web", PyStr("git+web"), PyNone)
HookLog == ModuleConfig("hooks-logging", PyNone, PyNone)
ToolFsReadOnly == ModuleConfig("tool-fs", PyNone, PyDict("ro" :> PyStr("1")))

\* the arguments of _merge_module_list: a plan's list of records, and an
\* overlay's list of ModuleConfig objects
ModuleConfigs == {ToolFs, ToolFsBare, ToolFsReadOnly, ToolBash, ToolBashSafe, ToolWeb}
BaseModuleLists == {PyList(ToDicts(q)) : q \in SeqsUpTo(ModuleConfigs, MaxListLen)}
OverlayModuleLists == {PyList(q) : q \in SeqsUpTo(ModuleConfigs, MaxListLen)}
ProviderA == ModuleConfig("provider-a", PyNone, PyDict("model" :> PyStr("m")))

LoopBasic == ModuleConfig("loop-basic", PyNone, PyNone)
LoopConfigured ==
    ModuleConfig("loop-basic", PyStr("git+loop"),
                 PyDict("a" :> PyStr("1") @@ "b" :> PyDict("c" :> PyStr("1"))))
LoopStreaming == ModuleConfig("loop-streaming", PyNone, PyDict("b" :> PyDict("d" :> PyStr("2"))))
LoopEmptyConfig == ModuleConfig("loop-streaming", PyStr("git+stream"), EmptyDict)
CtxSimple == ModuleConfig("ctx-simple", PyNone, PyNone)
CtxConfigured == ModuleConfig("ctx-simple", PyStr("git+ctx"), PyDict("p" :> PyStr("1")))
CtxPersistent == ModuleConfig("ctx-persistent", PyNone, PyDict("q" :> PyStr("2")))

AgentsSpecs ==
    {PyNone,
     AgentsConfig(EmptyList, PyNone, PyNone),
     AgentsConfig(EmptyList, Names(<<"./agents">>), PyNone),
     AgentsConfig(EmptyList, Names(<<"./agents">>), Names(<<"a2", "zz", "a1">>))}

BaseProfiles ==
    {Profile(Session(o, CtxSimple), a, <<>>, t, <<HookLog>>) :
        o \in {LoopBasic, LoopConfigured},
        a \in AgentsSpecs,
        t \in {<<>>, <<ToolFs>>, <<ToolFs, ToolBash>>}}
    \cup {Profile(Session(LoopConfigured, CtxConfigured), a, <<ProviderA>>,
                  <<ToolFs, ToolBash, ToolFsBare>>, <<>>) : a \in AgentsSpecs}

Overlays ==
    {Profile(Session(LoopBasic, CtxSimple), PyNone, <<>>, <<ToolBash>>, <<>>),
     Profile(Session(LoopStreaming, CtxSimple), PyNone, <<>>, <<>>, <<>>),
     Profile(Session(LoopEmptyConfig, CtxPersistent), PyNone, <<ProviderA>>, <<ToolWeb, ToolFsBare>>, <<>>),
     Profile(Session(LoopBasic, CtxSimple), PyNone, <<>>, <<ToolBashSafe, ToolWeb, ToolBash>>, <<HookLog>>),
     Profile(Session(LoopConfigured, CtxConfigured), PyNone, <<>>, <<ToolWeb>>, <<>>)}

\* agents (agent_schema.py), by their fields, and agent loaders
AgentObject(description, tools, session, system, agents, exclude) ==
    PyDict("meta" :> PyDict("name" :> PyStr("agent") @@ "description" :> PyStr(description))
           @@ "providers" :> EmptyList @@ "tools" :> PyList(tools) @@ "hooks" :> EmptyList
           @@ "session" :> session @@ "system" :> system
           @@ "agents" :> agents @@ "exclude" :> exclude)

Agents ==
    {AgentObject("an agent", t, s, y, a, x) :
        t \in {<<>>, <<ToolBash>>},
        s \in {PyNone, PyDict("orchestrator" :> PyStr("loop-basic"))},
        y \in {PyNone, PyDict("instruction" :> PyStr("be brief"))},
        a \in {PyNone, PyStr("all"), PyStr("none"), EmptyList, Names(<<"a2">>)},
        x \in {PyNone, EmptyDict, PyDict("agents" :> All),
               PyDict("tools" :> Names(<<"tool-bash">>))}}

AgentOne == AgentObject("one", <<ToolBash>>, PyNone, PyNone, Names(<<"a2">>), PyDict("agents" :> All))
AgentTwo == AgentObject("two", <<>>, PyNone, PyNone, PyNone, PyNone)

AgentLoader(names, agents) == PyDict("list_agents" :> names @@ "agents" :> agents)

AgentLoaders ==
    {PyNone,
     AgentLoader(Names(<<"a1", "a2">>), PyDict("a1" :> AgentOne @@ "a2" :> AgentTwo)),
     AgentLoader(Names(<<"a1", "bad", "a2">>),
                 PyDict("a1" :> AgentOne @@ "bad" :> PyErr("ParseError") @@ "a2" :> AgentTwo))}

\* the overlays and the loader a compile call is given
CompileArgs ==
    {PyDict("overlays" :> PyList(q) @@ "agent_loader" :> l) :
        q \in SeqsUpTo(Overlays, MaxOverlays), l \in AgentLoaders}

----------------------------------------------------------------------------
(* The caller: one parent object, merged with one child after another *)

Init ==
    /\ parent \in ParentTrees \cup ParentItems \cup ParentLists \cup ParentProfiles
                  \cup BaseProfiles \cup Agents \cup BaseModuleLists
    /\ parent0 = parent
    /\ child = EmptyDict
    /\ child0 = EmptyDict
    /\ returned = PyNone
    /\ pc = "init"

\* the caller after a call of fn on (parent, c): r is what the call returned
\* and what it left in the two objects
Called(fn, c, r) ==
    /\ returned' = r.ret
    /\ parent' = r.p
    /\ child' = r.c
    /\ child0' = c
    /\ pc' = fn
    /\ UNCHANGED parent0

CallMergeDicts ==
    /\ pc = "init"
    /\ parent \in ParentTrees
    /\ \E c \in ChildTrees : Called("merge_dicts", c, merge_dicts_run(parent, c))

CallMergeModuleItems ==
    /\ pc = "init"
    /\ parent \in ParentItems
    /\ \E c \in ChildItems : Called("merge_module_items", c, merge_module_items_run(parent, c))

CallMergeModuleLists ==
    /\ pc = "init"
    /\ parent \in ParentLists
    /\ \E c \in ChildLists : Called("merge_module_lists", c, merge_module_lists_run(parent, c))

CallApplyExclusions ==
    /\ pc = "init"
    /\ parent \in ParentProfiles
    /\ \E c \in ExclusionSpecs : Called("apply_exclusions", c, apply_exclusions_run(parent, c))

CallMergeProfileDicts ==
    /\ pc = "init"
    /\ parent \in ParentProfiles
    /\ \E c \in ChildProfiles : Called("merge_profile_dicts", c, merge_profile_dicts_run(parent, c))

\* compile_profile_to_mount_plan(base, overlays, agent_loader): the profiles
\* are frozen and the compiler writes only to the plan it builds
CallCompile ==
    /\ pc = "init"
    /\ parent \in BaseProfiles
    /\ \E c \in CompileArgs :
          Called("compile_profile_to_mount_plan", c,
                 [ret |-> compile_profile_to_mount_plan(parent, c.d["overlays"], c.d["agent_loader"]),
                  p |-> parent, c |-> c])

\* agent.to_mount_plan_fragment()
CallToMountPlanFragment ==
    /\ pc = "init"
    /\ parent \in Agents
    /\ Called("to_mount_plan_fragment", PyNone,
              [ret |-> to_mount_plan_fragment(parent), p |-> parent, c |-> PyNone])

\* _merge_module_list(base_modules, overlay_modules): result is a new list
CallMergeModuleList ==
    /\ pc = "init"
    /\ parent \in BaseModuleLists
    /\ \E c \in OverlayModuleLists :
          Called("merge_module_list", c,
                 [ret |-> PyList(merge_module_list(parent.l, c.l)), p |-> parent, c |-> c])

Next ==
    \/ CallMergeDicts
    \/ CallMergeModuleItems
    \/ CallMergeModuleLists
    \/ CallApplyExclusions
    \/ CallMergeProfileDicts
    \/ CallCompile
    \/ CallToMountPlanFragment
    \/ CallMergeModuleList

Spec == Init /\ [][Next]_vars

----------------------------------------------------------------------------
(* Dict Merger *)

\* C1: merge identity. Merging an empty child into any parent returns a tree
\* equal to the parent, and merging any child into an empty parent returns
\* a tree equal to the child.
C1_MergeIdentity ==
    pc = "merge_dicts" =>
        /\ (child0 = EmptyDict => returned = parent0)
        /\ (parent0 = EmptyDict => returned = child0)
        /\ merge_dicts(parent0, EmptyDict) = parent0
        /\ merge_dicts(EmptyDict, child0) = child0

C1_Witness ==
    /\ pc = "merge_dicts"
    /\ child0 = EmptyDict
    /\ parent0 = PyDict("a" :> PyDict("b" :> PyStr("1")) @@ "b" :> PyList(<<PyStr("1")>>))
    /\ returned = parent0

\* C2: the result of mergeDicts has exactly the union of the two key sets,
\* at every nesting depth; a key only in parent keeps parent's value, a key
\* only in child takes child's value, a key whose two values are both dicts
\* holds their merge, and in every other case (scalar, list, type mismatch)
\* the key holds child's value whole.
RECURSIVE DeepMerged(_, _, _)
DeepMerged(p, c, r) ==
    /\ IsDict(r)
    /\ Keys(r) = Keys(p) \cup Keys(c)
    /\ \A k \in Keys(r) :
         IF ~Has(c, k) THEN r.d[k] = p.d[k]
         ELSE IF ~Has(p, k) THEN r.d[k] = c.d[k]
         ELSE IF IsDict(p.d[k]) /\ IsDict(c.d[k])
              THEN /\ r.d[k] = merge_dicts(p.d[k], c.d[k])
                   /\ DeepMerged(p.d[k], c.d[k], r.d[k])
         ELSE r.d[k] = c.d[k]

C2_MergeByKey == pc = "merge_dicts" => DeepMerged(parent0, child0, returned)

\* both sides nest a dict under "a" with different keys, and a list replaces a list
C2_Witness ==
    /\ pc = "merge_dicts"
    /\ parent0 = PyDict("a" :> PyDict("a" :> PyStr("1")) @@ "b" :> PyList(<<PyStr("1")>>))
    /\ child0 = PyDict("a" :> PyDict("b" :> PyStr("2")))
    /\ returned = PyDict("a" :> PyDict("a" :> PyStr("1") @@ "b" :> PyStr("2"))
                         @@ "b" :> PyList(<<PyStr("1")>>))

----------------------------------------------------------------------------
(* Module-List Merger *)

\* the identifiers of the records of a list that carry one, in list order
RECURSIVE IdsOf(_)
IdsOf(q) ==
    IF q = <<>> THEN <<>>
    ELSE IF Has(Head(q), "module") /\ Truthy(Head(q).d["module"])
         THEN <<Head(q).d["module"].s>> \o IdsOf(Tail(q))
         ELSE IdsOf(Tail(q))

InSeq(x, q) == \E n \in 1..Len(q) : q[n] = x

\* q without the later occurrences of a value
RECURSIVE FirstOccurrences(_)
FirstOccurrences(q) ==
    IF q = <<>> THEN <<>>
    ELSE LET front == FirstOccurrences(SubSeq(q, 1, Len(q) - 1))
         IN  IF InSeq(q[Len(q)], front) THEN front ELSE Append(front, q[Len(q)])

WithId(q, id) == SelectSeq(q, LAMBDA r : Has(r, "module") /\ r.d["module"] = PyStr(id))

\* base merged with each record of q in turn
RECURSIVE MergedWithAll(_, _)
MergedWithAll(base, q) ==
    IF q = <<>> THEN base
    ELSE MergedWithAll(merge_module_items(base, Head(q)), Tail(q))

\* the record the claim expects for identifier id
ExpectedRecord(pl, cl, id) ==
    LET ps == WithId(pl, id)
        cs == WithId(cl, id)
    IN  IF ps # <<>> THEN MergedWithAll(ps[Len(ps)], cs)
        ELSE MergedWithAll(Head(cs), Tail(cs))

\* what a call of the function named fn returns
Returns(fn, p, c) ==
    CASE fn = "merge_dicts" -> merge_dicts(p, c)
      [] fn = "merge_module_items" -> merge_module_items(p, c)
      [] fn = "merge_module_lists" -> merge_module_lists(p, c)
      [] fn = "apply_exclusions" -> apply_exclusions(p, c)
      [] fn = "merge_profile_dicts" -> merge_profile_dicts(p, c)

C4_ListOrder ==
    pc = "merge_module_lists" =>
        LET pids == FirstOccurrences(IdsOf(parent0.l))
            cids == FirstOccurrences(
                        SelectSeq(IdsOf(child0.l), LAMBDA x : ~InSeq(x, pids)))
        IN  /\ IsList(returned)
            /\ IdsOf(returned.l) = pids \o cids
            /\ Len(returned.l) = Len(pids) + Len(cids)
            /\ {returned.l[n].d["module"].s : n \in 1..Len(returned.l)}
                  = {parent0.l[n].d["module"].s :
                        n \in {m \in 1..Len(parent0.l) : Has(parent0.l[m], "module")}}
                    \cup {child0.l[n].d["module"].s :
                        n \in {m \in 1..Len(child0.l) : Has(child0.l[m], "module")}}
            /\ \A n \in 1..Len(returned.l) :
                  returned.l[n] = ExpectedRecord(parent0.l, child0.l, returned.l[n].d["module"].s)

\* parent order B, A is kept although the child lists A first, and A is merged in place
C4_Witness ==
    /\ pc = "merge_module_lists"
    /\ IdsOf(parent0.l) = <<"B">>
    /\ IdsOf(child0.l) = <<"A", "B">>
    /\ Has(child0.l[2], "config") /\ Has(parent0.l[1], "config")
    /\ IdsOf(returned.l) = <<"B", "A">>
    /\ returned.l[1] = PyDict("module" :> PyStr("B") @@ "source" :> PyStr("C")
                             @@ "config" :> PyDict("x" :> PyStr("1") @@ "y" :> PyStr("2")))

\* C5: merging two records of one identifier: a field the child lacks keeps
\* the parent's value (source is inherited); a field of the child other than
\* config takes the child's value (also an explicit null or empty source);
\* config is the deep merge of the two configs when both are dicts, and the
\* child's value when either is not.
C5_ItemMerge ==
    pc = "merge_module_items" =>
        /\ IsDict(returned)
        /\ Keys(returned) = Keys(parent0) \cup Keys(child0)
        /\ \A k \in Keys(returned) :
             IF ~Has(child0, k) THEN returned.d[k] = parent0.d[k]
             ELSE IF k # "config" THEN returned.d[k] = child0.d[k]
             ELSE IF Has(parent0, k) /\ IsDict(parent0.d[k]) /\ IsDict(child0.d[k])
                  THEN returned.d[k] = merge_dicts(parent0.d[k], child0.d[k])
             ELSE returned.d[k] = child0.d[k]

\* the child omits source and adds a config key: source inherited, configs merged
C5_Witness ==
    /\ pc = "merge_module_items"
    /\ parent0 = PyDict("module" :> PyStr("A") @@ "source" :> PyStr("P")
                         @@ "config" :> PyDict("x" :> PyStr("1")))
    /\ child0 = PyDict("module" :> PyStr("A") @@ "config" :> PyDict("y" :> PyStr("2")))
    /\ returned = PyDict("module" :> PyStr("A") @@ "source" :> PyStr("P")
                        @@ "config" :> PyDict("x" :> PyStr("1") @@ "y" :> PyStr("2")))

\* C6: the list mergeModuleLists returns holds each identifier at most once,
\* also when an input list repeats an identifier.
C6_UniqueIds ==
    pc = "merge_module_lists" =>
        /\ IsList(returned)
        /\ \A m, n \in 1..Len(returned.l) :
              m # n => Get(returned.l[m], "module") # Get(returned.l[n], "module")

\* both inputs repeat identifier A
C6_Witness ==
    /\ pc = "merge_module_lists"
    /\ IdsOf(parent0.l) = <<"A", "A">>
    /\ IdsOf(child0.l) = <<"A", "A">>
    /\ IdsOf(returned.l) = <<"A">>

----------------------------------------------------------------------------
(* Exclusion Applier *)

RuleOf(section) == child0.d[section]

\* the names a list rule lists
Listed(rule) == {rule.l[n] : n \in 1..Len(rule.l)}

\* every section without a rule is in the result as it was inherited, and
\* the result has no section that was not inherited
UnnamedSectionsKept ==
    /\ Keys(returned) \subseteq Keys(parent0)
    /\ \A k \in Keys(parent0) \ Keys(child0) :
          Has(returned, k) /\ returned.d[k] = parent0.d[k]

\* C7: rule "all" on a section that is inherited: tools, hooks and providers
\* become the empty list; agents becomes the empty tree when it is a dict
\* and "none" when it is a list of names or a string; any other section is
\* removed. Sections without a rule are unchanged.
C7_ExcludeAll ==
    pc = "apply_exclusions" =>
        /\ IsDict(returned)
        /\ UnnamedSectionsKept
        /\ \A k \in Keys(child0) \cap Keys(parent0) :
             RuleOf(k) = All =>
                IF k \in {"tools", "hooks", "providers"}
                THEN Has(returned, k) /\ returned.d[k] = EmptyList
                ELSE IF k = "agents"
                THEN /\ Has(returned, k)
                     /\ IsDict(parent0.d[k]) => returned.d[k] = EmptyDict
                     /\ (IsList(parent0.d[k]) \/ IsStr(parent0.d[k]))
                            => returned.d[k] = PyStr("none")
                ELSE ~Has(returned, k)

\* agents given as a dict is emptied, session is removed, tools is untouched
C7_Witness ==
    /\ pc = "apply_exclusions"
    /\ child0 = PyDict("agents" :> All @@ "session" :> All)
    /\ Has(parent0, "agents") /\ IsDict(parent0.d["agents"])
    /\ Has(parent0, "session")
    /\ Has(parent0, "tools") /\ parent0.d["tools"] # EmptyList
    /\ returned.d["agents"] = EmptyDict
    /\ ~Has(returned, "session")
    /\ returned.d["tools"] = parent0.d["tools"]

\* q without the elements for which named holds, in q's order
Survivors(q, named(_)) ==
    LET kept == {n \in 1..Len(q) : ~named(q[n])}
        Nth(m) == CHOOSE i \in kept : Cardinality({j \in kept : j < i}) = m - 1
    IN  [m \in 1..Cardinality(kept) |-> q[Nth(m)]]

\* C8: a rule that lists identifiers removes exactly the listed items and
\* keeps the others in their order: module records by identifier in tools,
\* hooks and providers, names in agents given as a list, keys in agents
\* given as a dict. Sections without a rule are unchanged.
C8_ExcludeListed ==
    pc = "apply_exclusions" =>
        /\ IsDict(returned)
        /\ UnnamedSectionsKept
        /\ \A k \in Keys(child0) \cap Keys(parent0) :
             IsList(RuleOf(k)) =>
                /\ Has(returned, k)
                /\ (k \in {"tools", "hooks", "providers"} /\ IsList(parent0.d[k])) =>
                      /\ IsList(returned.d[k])
                      /\ returned.d[k].l =
                            Survivors(parent0.d[k].l,
                                      LAMBDA r : Get(r, "module") \in Listed(RuleOf(k)))
                /\ (k = "agents" /\ IsList(parent0.d[k])) =>
                      /\ IsList(returned.d[k])
                      /\ returned.d[k].l =
                            Survivors(parent0.d[k].l, LAMBDA a : a \in Listed(RuleOf(k)))
                /\ (k = "agents" /\ IsDict(parent0.d[k])) =>
                      /\ IsDict(returned.d[k])
                      /\ Keys(returned.d[k]) =
                            {a \in Keys(parent0.d[k]) : PyStr(a) \notin Listed(RuleOf(k))}
                      /\ \A a \in Keys(returned.d[k]) :
                            returned.d[k].d[a] = parent0.d[k].d[a]

\* B is dropped from tools A, B, C and a2 from agents a1, a2, a3
C8_Witness ==
    /\ pc = "apply_exclusions"
    /\ child0 = PyDict("tools" :> Names(<<"B">>) @@ "agents" :> Names(<<"a2">>))
    /\ Has(parent0, "tools") /\ parent0.d["tools"] = PyList(<<ToolA, ToolB, ToolC>>)
    /\ Has(parent0, "agents") /\ parent0.d["agents"] = Names(<<"a1", "a2", "a3">>)
    /\ returned.d["tools"] = PyList(<<ToolA, ToolC>>)
    /\ returned.d["agents"] = Names(<<"a1", "a3">>)

\* a list rule on section k that matches no item of the inherited section
MatchesNothing(k) ==
    /\ IsList(RuleOf(k))
    /\ LET sec == parent0.d[k]
       IN  IF IsList(sec)
           THEN \A n \in 1..Len(sec.l) :
                   /\ sec.l[n] \notin Listed(RuleOf(k))
                   /\ IsDict(sec.l[n]) => Get(sec.l[n], "module") \notin Listed(RuleOf(k))
           ELSE \A a \in Keys(sec) : PyStr(a) \notin Listed(RuleOf(k))

\* C9: applyExclusions raises nothing and returns a tree equal to inherited
\* when the exclusions are empty, when every rule names a section that is
\* not inherited, and when every listed identifier matches no item of its
\* section.
C9_NoOpExclusions ==
    pc = "apply_exclusions" =>
        ((\A k \in Keys(child0) : ~Has(parent0, k) \/ MatchesNothing(k))
            => ~IsErr(returned) /\ returned = parent0)

\* a rule that lists an unknown tool and a rule on a section not inherited
C9_Witness ==
    /\ pc = "apply_exclusions"
    /\ child0 = PyDict("tools" :> Names(<<"Z">>) @@ "providers" :> All)
    /\ Has(parent0, "tools") /\ parent0.d["tools"] = PyList(<<ToolA, ToolB, ToolC>>)
    /\ returned = parent0

----------------------------------------------------------------------------
(* Profile Merger *)

\* C10: when the child sets exclude, the tree mergeProfile returns has no
\* exclude key, whatever the parent is.
C10_ExcludeNeverInResult ==
    (pc = "merge_profile_dicts" /\ Has(child0, "exclude")) =>
        /\ IsDict(returned)
        /\ ~Has(returned, "exclude")

\* the rules the child's exclude gives, by section
ChildRule(section) == child0.d["exclude"].d[section]

\* the records of a module list that a rule ("all" or a list of identifiers) leaves
NotExcluded(q, rule) ==
    IF rule = All THEN <<>>
    ELSE Survivors(q, LAMBDA r : Get(r, "module") \in Listed(rule))

\* the identifiers of a module list that a rule excludes
ExcludedIds(q, rule) ==
    {q[n].d["module"].s : n \in {m \in 1..Len(q) :
        /\ Has(q[m], "module")
        /\ (rule = All \/ q[m].d["module"] \in Listed(rule))}}

\* the module sections the child carries are lists of records
ChildSectionsAreLists ==
    \A T \in ModuleSections \cap Keys(child0) : IsList(child0.d[T])

\* C11: mergeProfile applies child.exclude to the parent before the child's
\* entries are merged, never to the child's entries. For a child whose
\* module sections are lists of records and a module section
\* excluded with "all" or a list of identifiers: the result's list is the
\* parent records the rule leaves, merged with the child's list; an excluded
\* parent identifier the child does not declare is not in the result; a
\* child record that declares an excluded identifier is in the result as
\* the child wrote it.
C11_ExcludeBeforeMerge ==
    (pc = "merge_profile_dicts" /\ Has(child0, "exclude") /\ IsDict(child0.d["exclude"])) =>
        \A S \in (ModuleSections \cap Keys(child0.d["exclude"])) \cap Keys(parent0) :
            (/\ ChildRule(S) = All \/ IsList(ChildRule(S))
             /\ IsList(parent0.d[S])
             /\ ChildSectionsAreLists)
            => LET kept == PyList(NotExcluded(parent0.d[S].l, ChildRule(S)))
                   own == IF Has(child0, S) THEN child0.d[S].l ELSE <<>>
               IN  /\ IsDict(returned)
                   /\ Has(returned, S)
                   /\ returned.d[S] = IF Has(child0, S)
                                       THEN merge_module_lists(kept, child0.d[S])
                                       ELSE kept
                   /\ \A id \in ExcludedIds(parent0.d[S].l, ChildRule(S)) :
                         WithId(returned.d[S].l, id) =
                            IF WithId(own, id) = <<>> THEN <<>>
                            ELSE IF Len(WithId(own, id)) = 1 THEN WithId(own, id)
                            ELSE <<MergedWithAll(Head(WithId(own, id)), Tail(WithId(own, id)))>>

\* tools C and A are excluded and the child declares A again: B is kept,
\* C is gone, A is the child's record with no source and no config key x
C11_Witness ==
    /\ pc = "merge_profile_dicts"
    /\ Get(child0, "exclude") = PyDict("tools" :> Names(<<"C", "A">>))
    /\ Get(child0, "tools") = PyList(<<PyDict("module" :> PyStr("A")
                                              @@ "config" :> PyDict("y" :> PyStr("2")))>>)
    /\ Get(parent0, "tools") = PyList(<<ToolA, ToolB, ToolC>>)
    /\ returned.d["tools"] = PyList(<<ToolB, PyDict("module" :> PyStr("A")
                                                     @@ "config" :> PyDict("y" :> PyStr("2")))>>)

\* C12: for every profile tree p, mergeProfile(p, {}) equals p and equals
\* mergeDicts(p, {}).
C12_EmptyChildIdentity ==
    (pc = "merge_profile_dicts" /\ child0 = EmptyDict) =>
        /\ returned = parent0
        /\ returned = merge_dicts(parent0, EmptyDict)

\* a parent with module lists, agents, a session tree and an exclude key of its own
C12_Witness ==
    /\ pc = "merge_profile_dicts"
    /\ child0 = EmptyDict
    /\ Get(parent0, "tools") = PyList(<<ToolA, ToolB, ToolC>>)
    /\ Has(parent0, "hooks") /\ Has(parent0, "agents")
    /\ Has(parent0, "session") /\ Has(parent0, "exclude")
    /\ returned = parent0

\* the names of the records of an items list, in list order
NamesOf(q) == [n \in 1..Len(q) |-> Get(q[n], "name")]

\* parent and child both carry agents as a discovery spec (a dict)
BothDiscovery ==
    /\ pc = "merge_profile_dicts"
    /\ Has(parent0, "agents") /\ IsDict(parent0.d["agents"]) /\ Has(parent0.d["agents"], "items")
    /\ Has(child0, "agents") /\ IsDict(child0.d["agents"]) /\ Has(child0.d["agents"], "items")

Mergers == {"merge_dicts", "merge_module_lists", "apply_exclusions", "merge_profile_dicts"}

\* C18: mergeDicts, mergeModuleLists, applyExclusions and mergeProfile
\* raise no error on input that is structurally valid and semantically
\* empty (an empty list, an empty tree or a null on either side): a result
\* is returned.
C18_NoErrorOnEmptyInput ==
    pc \in Mergers => ~IsErr(returned)

\* the names of the records of a list that carry a name, in list order
RECURSIVE NamedIn(_)
NamedIn(q) ==
    IF q = <<>> THEN <<>>
    ELSE IF IsDict(Head(q)) /\ Has(Head(q), "name")
         THEN <<Head(q).d["name"]>> \o NamedIn(Tail(q))
         ELSE NamedIn(Tail(q))

\* a call of mergeModuleLists in which some record of either list carries a name
SomeRecordNamed ==
    /\ pc = "merge_module_lists"
    /\ NamedIn(parent0.l) \o NamedIn(child0.l) # <<>>

----------------------------------------------------------------------------
(* The compiler *)

\* the arguments of the compile call the state records
Base == parent0
OverlaysGiven == child0.d["overlays"].l
LoaderGiven == child0.d["agent_loader"]
Compiled == pc = "compile_profile_to_mount_plan"

\* C14: for every base profile and every list of overlays, a compile without
\* an agent loader returns a mount plan whose "agents" key is present and is
\* the empty list, also when the base profile declares agent dirs or an
\* include list.
C14_NoLoaderNoAgents ==
    (Compiled /\ LoaderGiven = PyNone) =>
        /\ IsDict(returned)
        /\ Has(returned, "agents")
        /\ returned.d["agents"] = EmptyList

C14_Witness ==
    /\ Compiled
    /\ LoaderGiven = PyNone
    /\ Base.d["agents"] # PyNone
    /\ Truthy(Base.d["agents"].d["dirs"])
    /\ Truthy(Base.d["agents"].d["include_only"])
    /\ Len(OverlaysGiven) = MaxOverlays
    /\ IsDict(returned)
    /\ returned.d["agents"] = EmptyList

\* the identifiers of one section along the chain: the base's, then each
\* overlay's, in overlay order
RECURSIVE ChainIds(_, _, _)
ChainIds(base, overlays, section) ==
    IF overlays = <<>> THEN IdsOf(base.d[section].l)
    ELSE ChainIds(base, SubSeq(overlays, 1, Len(overlays) - 1), section)
         \o IdsOf(overlays[Len(overlays)].d[section].l)

NoRepeats(q) == \A m, n \in 1..Len(q) : q[m] = q[n] => m = n

\* no list of the section, the base's or an overlay's, repeats an identifier
ChainListsDistinct(base, overlays, section) ==
    /\ NoRepeats(IdsOf(base.d[section].l))
    /\ \A n \in 1..Len(overlays) : NoRepeats(IdsOf(overlays[n].d[section].l))

\* ids holds base_ids first, then identifiers the base does not have, and
\* the identifiers appear in the order the chain first introduces them
BaseThenIntroduced(ids, base_ids, chain_ids) ==
    /\ Len(ids) >= Len(base_ids)
    /\ SubSeq(ids, 1, Len(base_ids)) = base_ids
    /\ \A n \in (Len(base_ids) + 1)..Len(ids) : ~InSeq(ids[n], base_ids)
    /\ FirstOccurrences(ids) = FirstOccurrences(chain_ids)

SessionModules == {"orchestrator", "context"}

\* the chain of profiles of the compile call: the base, then the overlays
Chain == <<Base>> \o OverlaysGiven

\* the config a profile gives its session module, {} when it gives none
ConfigOf(profile, which) ==
    IF Truthy(profile.d["session"].d[which].d["config"])
    THEN profile.d["session"].d[which].d["config"]
    ELSE EmptyDict

\* the configs of the first n profiles of the chain, deep-merged in chain order
RECURSIVE ConfigsDeepMerged(_, _, _)
ConfigsDeepMerged(chain, which, n) ==
    IF n = 0 THEN EmptyDict
    ELSE merge_dicts(ConfigsDeepMerged(chain, which, n - 1), ConfigOf(chain[n], which))

\* the config of the last of the first n profiles that sets a non-empty one,
\* {} when none does
RECURSIVE LastConfig(_, _, _)
LastConfig(chain, which, n) ==
    IF n = 0 THEN EmptyDict
    ELSE IF ConfigOf(chain[n], which) # EmptyDict THEN ConfigOf(chain[n], which)
    ELSE LastConfig(chain, which, n - 1)

\* the config block the plan holds for a session module, {} when it holds none
PlanConfig(plan, which) ==
    IF Has(plan, which) THEN plan.d[which].d["config"] ELSE EmptyDict

\* C16 (as claimed): in a compiled mount plan the config of orchestrator, and
\* of context, is the base's config deep-merged with each overlay's config in
\* overlay order, so a key set earlier in the chain and not set later is kept.
C16_ConfigDeepMerged ==
    (Compiled /\ IsDict(returned)) =>
        \A which \in SessionModules :
            PlanConfig(returned, which) = ConfigsDeepMerged(Chain, which, Len(Chain))

\* C16 (amended): in a compiled mount plan the config of orchestrator, and of
\* context, is the config of the last profile of the chain (the base, then the
\* overlays in order) that sets a non-empty one, taken whole; the plan has no
\* such block when no profile of the chain sets a non-empty config.
C16_ConfigReplaced ==
    (Compiled /\ IsDict(returned)) =>
        \A which \in SessionModules :
            /\ PlanConfig(returned, which) = LastConfig(Chain, which, Len(Chain))
            /\ Has(returned, which) <=> LastConfig(Chain, which, Len(Chain)) # EmptyDict
            /\ Has(returned, which) => Keys(returned.d[which]) = {"config"}

C16_Witness ==
    /\ Compiled
    /\ IsDict(returned)
    /\ ConfigOf(Base, "orchestrator")
         = PyDict("a" :> PyStr("1") @@ "b" :> PyDict("c" :> PyStr("1")))
    /\ Len(OverlaysGiven) = 1
    /\ ConfigOf(OverlaysGiven[1], "orchestrator") = PyDict("b" :> PyDict("d" :> PyStr("2")))
    /\ returned.d["orchestrator"].d["config"] = PyDict("b" :> PyDict("d" :> PyStr("2")))
    /\ ConfigsDeepMerged(Chain, "orchestrator", Len(Chain))
         = PyDict("a" :> PyStr("1") @@ "b" :> PyDict("c" :> PyStr("1") @@ "d" :> PyStr("2")))

\* the candidate names as the specification gives them: the include-only
\* list when it is non-empty, else the loader's listing when dirs are
\* configured, else none
Candidates(agents, agent_loader) ==
    IF Truthy(agents.d["include_only"]) THEN agents.d["include_only"].l
    ELSE IF Truthy(agents.d["dirs"]) THEN list_agents(agent_loader).l
    ELSE <<>>

\* a compile call that has candidates to load: a loader, and a base with an
\* agents spec
CompiledWithLoader == Compiled /\ LoaderGiven # PyNone /\ Base.d["agents"] # PyNone

\* C17: with an agent loader supplied, compile returns a mount plan whatever
\* candidates fail to load, and the plan's agents are exactly the fragments of
\* the candidates that loaded, each tagged with its candidate name, in
\* candidate order.
C17_FailuresSkipped ==
    CompiledWithLoader =>
        /\ IsDict(returned)
        /\ returned.d["agents"]
             = PyList(LoadAgents(Candidates(Base.d["agents"], LoaderGiven),
                                 LoaderGiven,
                                 Len(Candidates(Base.d["agents"], LoaderGiven))))

\* the fragment carries exclude exactly when the agent sets one, and agents
\* exactly when the agent sets it, with the agent's values
FragmentKeeps(agent, fragment, key) ==
    /\ Has(fragment, key) <=> agent.d[key] # PyNone
    /\ Has(fragment, key) => fragment.d[key] = agent.d[key]

FragmentKeepsExcludeAndAgents ==
    pc = "to_mount_plan_fragment" =>
        /\ FragmentKeeps(parent0, returned, "exclude")
        /\ FragmentKeeps(parent0, returned, "agents")

\* the entry of the plan's agents list tagged with agent_name
EntriesNamed(plan, agent_name) ==
    SelectSeq(plan.d["agents"].l, LAMBDA entry : entry.d["name"] = agent_name)

\* every candidate that loads has one entry in the plan, and the entry
\* carries the agent's exclude and agents
PlanKeepsExcludeAndAgents ==
    CompiledWithLoader =>
        /\ IsDict(returned)
        /\ \A n \in 1..Len(Candidates(Base.d["agents"], LoaderGiven)) :
             LET agent_name == Candidates(Base.d["agents"], LoaderGiven)[n]
                 agent == load_agent(LoaderGiven, agent_name)
             IN  ~IsErr(agent) =>
                    /\ Len(EntriesNamed(returned, agent_name)) = 1
                    /\ FragmentKeeps(agent, EntriesNamed(returned, agent_name)[1], "exclude")
                    /\ FragmentKeeps(agent, EntriesNamed(returned, agent_name)[1], "agents")

\* C19: an agent's exclude and agents settings survive conversion and
\* compilation: the fragment holds exclude (agents) exactly when the agent sets
\* it, with the agent's value, and the entry compile stores for the agent in
\* the mount plan carries both with the same values.
C19_ExcludeSurvives ==
    /\ FragmentKeepsExcludeAndAgents
    /\ PlanKeepsExcludeAndAgents

----------------------------------------------------------------------------
(* Records without an identifier *)

\* the records of a list that carry the identifier field, in list order
Identified(q) == SelectSeq(q, LAMBDA r : Has(r, "module"))

----------------------------------------------------------------------------
(* mergeProfile, key by key *)

\* the parent after the child's exclusions (lines 194-196)
Inherited ==
    IF Has(child0, "exclude") /\ Truthy(child0.d["exclude"])
    THEN apply_exclusions(parent0, child0.d["exclude"])
    ELSE parent0

\* the inherited list of a module section, empty when the parent has none
InheritedList(section) ==
    IF Has(Inherited, section) THEN Inherited.d[section] ELSE EmptyList

\* C22: in mergeProfile, whenever the child carries tools, hooks or providers
\* (as a list), the result's list for that key is the output of
\* mergeModuleLists for the parent's list after exclusions and the child's
\* list, a parent without the key counting as an empty list: the list is
\* merged by identifier alike whether the parent lacks the key or holds [].
C22_ChildListsAlwaysMerged ==
    (pc = "merge_profile_dicts" /\ IsDict(returned)) =>
        \A section \in ModuleSections \cap Keys(child0) :
            IsList(child0.d[section]) =>
                returned.d[section] = merge_module_lists(InheritedList(section), child0.d[section])

\* where the parent holds the key, the result's list is the merger's output
ListsMergedWhereParentHasKey ==
    (pc = "merge_profile_dicts" /\ IsDict(returned)) =>
        \A section \in ModuleSections \cap Keys(child0) :
            (IsList(child0.d[section]) /\ Has(Inherited, section)) =>
                returned.d[section] = merge_module_lists(Inherited.d[section], child0.d[section])

\* the keys mergeProfile has no rule of their own for
OtherKeys(keys) == keys \ ({"exclude", "agents"} \cup ModuleSections)

\* C23: in mergeProfile, for every key other than exclude, tools, hooks,
\* providers and agents, with the parent taken after the child's exclusions:
\* a key only the parent has is kept unchanged, a key only the child has is
\* added as it is, a key that is dict-shaped on both sides is the deep merge
\* of the two values, and in every other case the child's value replaces the
\* parent's. A child without exclusions inherits every such key it does not
\* mention from the parent as it is.
C23_OtherKeys ==
    (pc = "merge_profile_dicts" /\ IsDict(returned)) =>
        /\ OtherKeys(Keys(returned)) = OtherKeys(Keys(Inherited) \cup Keys(child0))
        /\ \A k \in OtherKeys(Keys(returned)) :
              IF ~Has(child0, k) THEN returned.d[k] = Inherited.d[k]
              ELSE IF ~Has(Inherited, k) THEN returned.d[k] = child0.d[k]
              ELSE IF IsDict(Inherited.d[k]) /\ IsDict(child0.d[k])
              THEN /\ DeepMerged(Inherited.d[k], child0.d[k], returned.d[k])
                   /\ returned.d[k] = merge_dicts(Inherited.d[k], child0.d[k])
              ELSE returned.d[k] = child0.d[k]
        /\ ~Has(child0, "exclude") =>
              \A k \in OtherKeys(Keys(parent0)) \ Keys(child0) : returned.d[k] = parent0.d[k]

\* a session tree on both sides is merged key by key, and the parent's hooks,
\* which the child does not mention, are inherited
C23_Witness ==
    /\ pc = "merge_profile_dicts"
    /\ ~Has(child0, "exclude")
    /\ Has(parent0, "hooks") /\ ~Has(child0, "hooks")
    /\ Get(returned, "hooks") = parent0.d["hooks"]
    /\ Get(parent0, "session") = PyDict("o" :> PyStr("X") @@ "items" :> Names(<<"i1", "i2">>))
    /\ Get(child0, "session") = PyDict("o" :> PyStr("Y"))
    /\ Get(returned, "session") = PyDict("o" :> PyStr("Y") @@ "items" :> Names(<<"i1", "i2">>))

\* both sides carry agents, the parent after the child's exclusions
BothAgents ==
    /\ pc = "merge_profile_dicts"
    /\ ChildSectionsAreLists
    /\ Has(Inherited, "agents")
    /\ Has(child0, "agents")

\* every element of list a is an element of list b
AllIn(a, b) == \A n \in 1..Len(a.l) : InList(a.l[n], b)

----------------------------------------------------------------------------
(* Nested exclusion rules *)

\* a dict-shaped section after a nested rule: a key the rule clears with
\* "all" holds [] when its value is a list and is gone otherwise, a
\* list-valued key with a list rule loses the listed elements, every other
\* key is as it was
NestedExpected(sec, rule) ==
    PyDict([k \in {j \in Keys(sec) : ~(Has(rule, j) /\ rule.d[j] = All /\ ~IsList(sec.d[j]))} |->
        IF Has(rule, k) /\ IsList(sec.d[k]) /\ rule.d[k] = All THEN EmptyList
        ELSE IF Has(rule, k) /\ IsList(sec.d[k]) /\ IsList(rule.d[k])
        THEN PyList(SelectSeq(sec.d[k].l, LAMBDA item : ~InList(item, rule.d[k])))
        ELSE sec.d[k]])

\* the sections of the input that carry a nested rule
NestedRuled == {S \in Keys(child0) \cap Keys(parent0) : IsDict(child0.d[S])}

\* C25: a nested rule given to applyExclusions takes effect only on a
\* dict-shaped section: for each nested key the section has, "all" puts [] in
\* place of a list and deletes any other value, and a list rule removes the
\* listed elements of a list-valued field; nested keys the section lacks are
\* skipped; a section that is not dict-shaped stays as it was, and a call
\* whose rules are all nested rules on such sections returns its input.
C25_NestedRules ==
    pc = "apply_exclusions" =>
        /\ IsDict(returned)
        /\ \A S \in NestedRuled :
              returned.d[S] = IF IsDict(parent0.d[S])
                              THEN NestedExpected(parent0.d[S], child0.d[S])
                              ELSE parent0.d[S]
        /\ (\A S \in Keys(child0) : IsDict(child0.d[S]) /\ ~IsDict(Get(parent0, S)))
              => returned = parent0

\* a list rule on the scalar o and on the list items, and a nested rule on
\* agents given as a list of names
C25_Witness ==
    /\ pc = "apply_exclusions"
    /\ child0 = PyDict("session" :> PyDict("o" :> Names(<<"X">>) @@ "items" :> Names(<<"i2", "zz">>))
                       @@ "agents" :> PyDict("a1" :> All))
    /\ Get(parent0, "session") = PyDict("o" :> PyStr("X") @@ "items" :> Names(<<"i1", "i2">>))
    /\ Get(parent0, "agents") = Names(<<"a1", "a2", "a3">>)
    /\ Get(returned, "session") = PyDict("o" :> PyStr("X") @@ "items" :> Names(<<"i1">>))
    /\ Get(returned, "agents") = Names(<<"a1", "a2", "a3">>)

----------------------------------------------------------------------------
(* The compiler: candidates, session fields, identifiers *)

\* the names the entries of the plan's agents list are tagged with
AgentNames(plan) ==
    [n \in 1..Len(plan.d["agents"].l) |-> plan.d["agents"].l[n].d["name"]]

\* C26: with an agents spec in the base and an agent loader supplied,
\* compile returns a mount plan for every agents spec the schema can build,
\* and the candidates are the spec's include-only list when it is non-empty,
\* else the loader's listing when the spec configures dirs, else none: the
\* plan's agents are named, in order, by the candidates that load.
C26_CandidateNames ==
    CompiledWithLoader =>
        /\ IsDict(returned)
        /\ AgentNames(returned)
             = SelectSeq(Candidates(Base.d["agents"], LoaderGiven),
                         LAMBDA agent_name : ~IsErr(load_agent(LoaderGiven, agent_name)))

\* the last profile of the chain
LastProfile == Chain[Len(Chain)]

SourceKey(which) == IF which = "orchestrator" THEN "orchestrator_source" ELSE "context_source"

\* C27: in a compiled mount plan session.orchestrator and session.context are
\* always present and are the module ids of the last profile of the chain
\* (the last overlay, the base when there is none); orchestrator_source and
\* context_source are present exactly when that same profile gives the module
\* a non-empty source, and then equal it: a source given only earlier in the
\* chain is not carried over.
C27_SessionFieldsReplaced ==
    (Compiled /\ IsDict(returned)) =>
        /\ Keys(returned.d["session"]) \subseteq
              {"orchestrator", "context", "orchestrator_source", "context_source"}
        /\ \A which \in SessionModules :
              LET m == LastProfile.d["session"].d[which]
              IN  /\ Has(returned.d["session"], which)
                  /\ returned.d["session"].d[which] = m.d["module"]
                  /\ Has(returned.d["session"], SourceKey(which)) <=> Truthy(m.d["source"])
                  /\ Has(returned.d["session"], SourceKey(which)) =>
                        returned.d["session"].d[SourceKey(which)] = m.d["source"]

\* the base and the first overlay give a source, the last overlay gives none
C27_Witness ==
    /\ Compiled
    /\ IsDict(returned)
    /\ Base.d["session"].d["orchestrator"] = LoopConfigured
    /\ Len(OverlaysGiven) = 2
    /\ OverlaysGiven[1].d["session"].d["orchestrator"] = LoopEmptyConfig
    /\ OverlaysGiven[2].d["session"].d["orchestrator"] = LoopBasic
    /\ returned.d["session"].d["orchestrator"] = PyStr("loop-basic")
    /\ ~Has(returned.d["session"], "orchestrator_source")

\* C28: in a mount plan compiled with at least one overlay, each of
\* providers, tools and hooks holds every module identifier at most once,
\* also when the base's list or an overlay's list repeats an identifier.
C28_PlanIdsUnique ==
    (Compiled /\ IsDict(returned) /\ Len(OverlaysGiven) >= 1) =>
        \A section \in ModuleSections : NoRepeats(IdsOf(returned.d[section].l))

\* the same for chains none of whose lists repeats an identifier
PlanIdsUniqueForDistinctLists ==
    (Compiled /\ IsDict(returned)) =>
        \A section \in ModuleSections :
            ChainListsDistinct(Base, OverlaysGiven, section)
                => NoRepeats(IdsOf(returned.d[section].l))

----------------------------------------------------------------------------
(* Grouping of a chain of merges *)

\* third layers: trees merged onto the result of a call
Layers ==
    {EmptyDict,
     PyDict("a" :> PyStr("2")),
     PyDict("a" :> PyList(<<PyStr("2")>>)),
     PyDict("a" :> PyDict("b" :> PyStr("2"))),
     PyDict("a" :> PyDict("a" :> PyDict("b" :> PyStr("2"))) @@ "b" :> PyStr("1")),
     PyDict("b" :> PyDict("a" :> PyStr("2") @@ "b" :> EmptyDict))}

ProfileLayers ==
    {EmptyDict,
     PyDict("tools" :> EmptyList),
     PyDict("tools" :> PyList(<<PyDict("module" :> PyStr("A") @@ "config" :> PyDict("z" :> PyStr("3"))),
                                PyDict("module" :> PyStr("E"))>>)),
     PyDict("tools" :> PyList(<<PyDict("module" :> PyStr("D") @@ "config" :> PyDict("z" :> PyStr("3")))>>)
            @@ "hooks" :> PyList(<<PyDict("module" :> PyStr("B") @@ "source" :> PyStr("L"))>>)),
     PyDict("session" :> PyDict("o" :> PyStr("Z") @@ "items" :> Names(<<"i3">>))),
     PyDict("session" :> PyStr("last")),
     PyDict("agents" :> Names(<<"a5">>)),
     PyDict("agents" :> PyDict("items" :> AgentItems(<<"E">>) @@ "dirs" :> Names(<<"./more">>)))}

\* the two groupings of a chain a, b, c under a merge function
RightFirst(merge(_, _), a, b, c) == merge(a, merge(b, c))

\* no key, at any depth, holds a dict in a and in c and another value in b
RECURSIVE NoShapeReset(_, _, _)
NoShapeReset(a, b, c) ==
    \A k \in (Keys(a) \cap Keys(b)) \cap Keys(c) :
        (IsDict(a.d[k]) /\ IsDict(c.d[k])) =>
            /\ IsDict(b.d[k])
            /\ NoShapeReset(a.d[k], b.d[k], c.d[k])

\* a tree without the keys ks
Without(v, ks) == PyDict([k \in Keys(v) \ ks |-> v.d[k]])

\* the module sections a tree carries are lists of records that repeat no
\* identifier
ListsRegular(v) ==
    \A section \in ModuleSections \cap Keys(v) :
        /\ IsList(v.d[section])
        /\ NoRepeats(IdsOf(v.d[section].l))

\* the same shape condition on the records of one identifier that the three
\* trees carry in one module section
RecordsNoShapeReset(a, b, c) ==
    \A section \in ((ModuleSections \cap Keys(a)) \cap Keys(b)) \cap Keys(c) :
        \A i \in 1..Len(a.d[section].l), j \in 1..Len(b.d[section].l), k \in 1..Len(c.d[section].l) :
            LET x == a.d[section].l[i]
                y == b.d[section].l[j]
                z == c.d[section].l[k]
            IN  (/\ IdsOf(<<x>>) # <<>>
                 /\ IdsOf(<<x>>) = IdsOf(<<y>>)
                 /\ IdsOf(<<x>>) = IdsOf(<<z>>)) => NoShapeReset(x, y, z)

\* a merge_profile_dicts call on trees without an exclude key that returned
ProfilesMerged ==
    /\ pc = "merge_profile_dicts"
    /\ ~Has(parent0, "exclude") /\ ~Has(child0, "exclude")
    /\ ChildSectionsAreLists
    /\ IsDict(returned)

\* C29 as claimed: mergeProfile and mergeDicts give the same result in either
\* grouping of a chain a, b, c of trees without an exclude key, also where a
\* key is dict-shaped in some layers and scalar or list-shaped in others.
C29_AnyGrouping ==
    /\ pc = "merge_dicts" =>
          \A c \in Layers :
              merge_dicts(returned, c) = RightFirst(merge_dicts, parent0, child0, c)
    /\ ProfilesMerged =>
          \A c \in ProfileLayers :
              merge_profile_dicts(returned, c) = RightFirst(merge_profile_dicts, parent0, child0, c)

\* C29, amended: the two groupings agree for mergeDicts on every chain in
\* which no key, at any depth, holds a dict in a and in c and a scalar or a
\* list in b, and for mergeProfile on every such chain of trees without an
\* exclude key whose module lists repeat no identifier, the shape condition
\* read also on the records that share an identifier.
C29_GroupingWithoutShapeReset ==
    /\ pc = "merge_dicts" =>
          \A c \in Layers :
              NoShapeReset(parent0, child0, c) =>
                  merge_dicts(returned, c) = RightFirst(merge_dicts, parent0, child0, c)
    /\ ProfilesMerged =>
          \A c \in ProfileLayers :
              (/\ NoShapeReset(Without(parent0, ModuleSections), Without(child0, ModuleSections),
                               Without(c, ModuleSections))
               /\ ListsRegular(parent0) /\ ListsRegular(child0) /\ ListsRegular(c)
               /\ RecordsNoShapeReset(parent0, child0, c))
              => merge_profile_dicts(returned, c)
                    = RightFirst(merge_profile_dicts, parent0, child0, c)

\* a chain that mixes shapes under session (a string in a, dicts in b and c)
\* and merges module lists, on which the two groupings agree
C29_Witness ==
    /\ ProfilesMerged
    /\ Get(parent0, "session") = PyStr("default")
    /\ IsDict(Get(child0, "session"))
    /\ Has(parent0, "tools") /\ Has(child0, "tools") /\ Has(child0, "agents")
    /\ \E c \in ProfileLayers :
          /\ IsDict(Get(c, "session"))
          /\ NoShapeReset(Without(parent0, ModuleSections), Without(child0, ModuleSections),
                          Without(c, ModuleSections))
          /\ ListsRegular(parent0) /\ ListsRegular(child0)
          /\ merge_profile_dicts(returned, c) # returned
          /\ merge_profile_dicts(returned, c) = RightFirst(merge_profile_dicts, parent0, child0, c)

----------------------------------------------------------------------------
(* The compiler's list merge against the Module-List Merger *)

\* C30: for a base list and an overlay list of module records in which each
\* record has a non-empty module and no identifier is repeated within a
\* list, _merge_module_list(base, overlay) returns the same records in the
\* same order as merge_module_lists(base, overlay).
C30_ListMergeAgrees ==
    (/\ pc = "merge_module_list"
     /\ NoRepeats(IdsOf(parent0.l))
     /\ NoRepeats(IdsOf(ToDicts(child0.l))))
    => returned = merge_module_lists(parent0, PyList(ToDicts(child0.l)))

\* a base record merged with the overlay's record of its identifier, a base
\* record kept, and a new overlay record appended
C30_Witness ==
    /\ pc = "merge_module_list"
    /\ parent0 = PyList(ToDicts(<<ToolFs, ToolBash>>))
    /\ child0 = PyList(<<ToolWeb, ToolFsReadOnly>>)
    /\ returned = PyList(<<PyDict("module" :> PyStr("tool-fs") @@ "source" :> PyStr("git+fs")
                                  @@ "config" :> PyDict("root" :> PyStr("/") @@ "ro" :> PyStr("1"))),
                           to_dict(ToolBash), to_dict(ToolWeb)>>)
    /\ returned = merge_module_lists(parent0, PyList(ToDicts(child0.l)))

\* the same agreement without the premise on repeated identifiers
ListMergeAgreesAlways ==
    pc = "merge_module_list" => returned = merge_module_lists(parent0, PyList(ToDicts(child0.l)))

====
